---------------------------- MODULE Spec2Model ----------------------------
(***************************************************************************)
(* Propositional formulas (core/src/ast.rs), the rule-based rewriter that  *)
(* brings them to CNF / DNF (core/src/rewrite.rs) and the DPLL solver over *)
(* the clauses of the CNF (core/src/sat.rs).                               *)
(*                                                                         *)
(* One behaviour is one call of AST::cnf, AST::dnf or AST::sat on an input *)
(* formula.  cnf and dnf are applied a second time to their own result.    *)
(***************************************************************************)
EXTENDS Naturals, Sequences, FiniteSets

\* Largest number of nodes of an enumerated input formula.
MaxSize == 8

----------------------------------------------------------------------------
(* ast.rs: ASTNode and its constructors *)

Variable(ident) == [op |-> "var", id |-> ident]

Not(p) == [op |-> "not", p |-> p]

And(p1, p2) == [op |-> "and", l |-> p1, r |-> p2]

Or(p1, p2) == [op |-> "or", l |-> p1, r |-> p2]

----------------------------------------------------------------------------
(* procmacro: propositional_logic! numbers the identifiers of a formula     *)
(* 0, 1, 2, ... in the order of their first occurrence in the token stream  *)
(* (operator, left operand, right operand), i.e. left to right.  The input  *)
(* formulas are the formulas so numbered; every other formula is one of     *)
(* them with its variables renamed.                                         *)

RECURSIVE Flatten(_)
Flatten(seqs) == IF seqs = <<>> THEN <<>> ELSE Head(seqs) \o Flatten(Tail(seqs))

\* The entries <<formula, identifiers in the symbol table>> of written that
\* leave w identifiers in the symbol table.
Leaving(written, w) ==
    LET Leaves(x) == x[2] = w
    IN  SelectSeq(written, Leaves)

\* And and Or of every left operand with every right operand.
Binary(lefts, rights) ==
    [k \in 1..(2 * Len(lefts) * Len(rights)) |->
        LET j == (k - 1) \div 2
            x == lefts[(j \div Len(rights)) + 1]
            y == rights[(j % Len(rights)) + 1]
        IN  <<IF k % 2 = 1 THEN And(x[1], y[1]) ELSE Or(x[1], y[1]), y[2]>>]

\* written[n][u] lists the <<formula, identifiers in the symbol table>> for
\* the formulas of n nodes that codegen writes with u identifiers in the
\* symbol table at the start.  Sizes(written, n) is that function for n,
\* from those for the smaller sizes.
Sizes(written, n) ==
    [u \in 0..MaxSize |->
        IF u + n > MaxSize + 1 THEN <<>>
        ELSE IF n = 1
        THEN [k \in 1..(u + 1) |-> <<Variable(k - 1), IF k - 1 = u THEN u + 1 ELSE u>>]
        ELSE LET operand == written[n - 1][u]
                 Split(i) ==
                     Flatten([j \in 1..(i + 1) |->
                         Binary(Leaving(written[i][u], u + j - 1),
                                written[n - 1 - i][u + j - 1])])
             IN  [k \in 1..Len(operand) |-> <<Not(operand[k][1]), operand[k][2]>>]
                 \o Flatten([i \in 1..(n - 2) |-> Split(i)])]

RECURSIVE codegen(_)
codegen(written) ==
    IF Len(written) = MaxSize THEN written
    ELSE codegen(Append(written, Sizes(written, Len(written) + 1)))

\* Written[n][0]: the formulas of n nodes as the macro writes them.
Written == codegen(<<>>)

\* main.rs: NOT NOT (((NOT (c OR d) AND (a OR NOT NOT b)) AND NOT a) AND NOT b)
\* with c = 0, d = 1, a = 2, b = 3 (order of first occurrence).
MainFormula ==
    Not(Not(And(And(And(Not(Or(Variable(0), Variable(1))),
                        Or(Variable(2), Not(Not(Variable(3))))),
                    Not(Variable(2))),
                Not(Variable(3)))))

----------------------------------------------------------------------------
\* Body applied to value.  The value is bound by a quantifier, so that it is
\* evaluated once however often Body uses it.
With(value, Body(_)) == CHOOSE result \in {Body(x) : x \in {value}} : TRUE

----------------------------------------------------------------------------
(* rewrite.rs: RewriteRule *)

\* HashMap::extend: the bindings of `right` overwrite those of `left`.
extend(left, right) ==
    [i \in (DOMAIN left) \cup (DOMAIN right) |->
        IF i \in DOMAIN right THEN right[i] ELSE left[i]]

RuleDoesNotApply == [ok |-> FALSE, map |-> <<>>]

\* RewriteRule::matching: Ok(bindings) or Err(RuleDoesNotApply).
RECURSIVE matching(_, _)
matching(target, pattern) ==
    CASE pattern.op = "not" /\ target.op = "not" ->
            matching(target.p, pattern.p)
      [] pattern.op \in {"and", "or"} /\ target.op = pattern.op ->
            LET matching_p1 == matching(target.l, pattern.l)
                matching_p2 == matching(target.r, pattern.r)
            IN  IF ~matching_p1.ok THEN RuleDoesNotApply
                ELSE IF ~matching_p2.ok THEN RuleDoesNotApply
                ELSE [ok |-> TRUE, map |-> extend(matching_p1.map, matching_p2.map)]
      [] pattern.op = "var" ->
            [ok |-> TRUE, map |-> [i \in {pattern.id} |-> target]]
      [] OTHER -> RuleDoesNotApply

RECURSIVE substitute(_, _)
substitute(template, map) ==
    CASE template.op = "var" -> map[template.id]
      [] template.op = "not" -> Not(substitute(template.p, map))
      [] template.op = "and" ->
            And(substitute(template.l, map), substitute(template.r, map))
      [] OTHER ->
            Or(substitute(template.l, map), substitute(template.r, map))

\* RewriteRule::rewrite: the rule applied at the root of target.
rule_rewrite(rule, target) ==
    LET Substitute(m) == IF m.ok THEN substitute(rule.bot, m.map) ELSE target
    IN  With(matching(target, rule.top), Substitute)

----------------------------------------------------------------------------
(* ast.rs: the rules of AST::dnf and AST::cnf.  In a rule, x, y, z are the  *)
(* pattern variables 0, 1, 2 of the macro's numbering.                      *)

DoubleNegation ==
    [top |-> Not(Not(Variable(0))), bot |-> Variable(0)]

DeMorganDisjunction ==
    [top |-> Not(Or(Variable(0), Variable(1))),
     bot |-> And(Not(Variable(0)), Not(Variable(1)))]

DeMorganConjunction ==
    [top |-> Not(And(Variable(0), Variable(1))),
     bot |-> Or(Not(Variable(0)), Not(Variable(1)))]

DistributeAndOverOr ==
    [top |-> And(Variable(0), Or(Variable(1), Variable(2))),
     bot |-> Or(And(Variable(0), Variable(1)), And(Variable(0), Variable(2)))]

DistributeOrOverAnd ==
    [top |-> Or(Variable(0), And(Variable(1), Variable(2))),
     bot |-> And(Or(Variable(0), Variable(1)), Or(Variable(0), Variable(2)))]

\* A De Morgan rule for disjunction whose replacement keeps the disjunction.
DeMorganDisjunctionKeepsOr ==
    [top |-> Not(Or(Variable(0), Variable(1))),
     bot |-> Or(Not(Variable(0)), Not(Variable(1)))]

DnfRulesUnsound ==
    <<DoubleNegation, DeMorganDisjunctionKeepsOr, DeMorganConjunction,
      DistributeAndOverOr>>

DnfRules ==
    <<DoubleNegation, DeMorganDisjunction, DeMorganConjunction,
      DistributeAndOverOr>>

\* AST::cnf lists the De Morgan rule for disjunction twice and has none for
\* conjunction.
CnfRules ==
    <<DoubleNegation, DeMorganDisjunction, DeMorganDisjunction,
      DistributeOrOverAnd>>

Rules(operation) == IF operation = "dnf" THEN DnfRules ELSE CnfRules

----------------------------------------------------------------------------
(* rewrite.rs: RewriteRuleset *)

\* RewriteRuleset::rewrite: the rules folded over the root, in order.
RECURSIVE fold_rules(_, _, _)
fold_rules(rules, i, ast) ==
    IF i > Len(rules) THEN ast
    ELSE LET Rest(rewritten) == fold_rules(rules, i + 1, rewritten)
         IN  With(rule_rewrite(rules[i], ast), Rest)

rewrite(rules, target) == fold_rules(rules, 1, target)

RECURSIVE rewrite_recursive(_, _)
rewrite_recursive(rules, target) ==
    LET Children(t) ==
            CASE t.op = "not" -> Not(rewrite_recursive(rules, t.p))
              [] t.op = "and" ->
                    And(rewrite_recursive(rules, t.l), rewrite_recursive(rules, t.r))
              [] t.op = "or" ->
                    Or(rewrite_recursive(rules, t.l), rewrite_recursive(rules, t.r))
              [] OTHER -> t
    IN  With(rewrite(rules, target), Children)

\* A loop body that returns when the pass changed the formula.
hull_iteration_inverted(rules, target) ==
    LET Compare(new) == IF new # target THEN [return |-> TRUE, value |-> target]
                        ELSE [return |-> FALSE, value |-> new]
    IN  With(rewrite_recursive(rules, target), Compare)

\* A loop body that returns the outcome of its first pass.
hull_iteration_single_pass(rules, target) ==
    [return |-> TRUE, value |-> rewrite_recursive(rules, target)]

\* One iteration of the loop of rewrite_recursive_hull: return target, or
\* go round again with the rewritten formula as the target.
hull_iteration(rules, target) ==
    LET Compare(new) == IF new = target THEN [return |-> TRUE, value |-> target]
                        ELSE [return |-> FALSE, value |-> new]
    IN  With(rewrite_recursive(rules, target), Compare)

----------------------------------------------------------------------------
(* sat.rs: Literal, Clause *)

Literal(ident, polarity) == [identifier |-> ident, polarity |-> polarity]

\* A flip that leaves the polarity as it is.
flip_identity(polarity) == polarity

\* Polarity::flip
flip(polarity) == IF polarity = "Positive" THEN "Negative" ELSE "Positive"

\* Literal::not
literal_not(lit) == Literal(lit.identifier, flip(lit.polarity))

is_unit_clause(clause) == Cardinality(clause) = 1

is_empty(clause) == clause = {}

----------------------------------------------------------------------------
(* sat.rs: clause extraction *)

\* The branches of generate_clause_from_subtree that end in unreachable!().
RECURSIVE clause_unreachable(_)
clause_unreachable(ast) ==
    CASE ast.op = "var" -> FALSE
      [] ast.op = "not" -> ast.p.op # "var"
      [] ast.op = "or" -> clause_unreachable(ast.l) \/ clause_unreachable(ast.r)
      [] OTHER -> TRUE

RECURSIVE generate_clause_from_subtree(_)
generate_clause_from_subtree(ast) ==
    CASE ast.op = "var" -> {Literal(ast.id, "Positive")}
      [] ast.op = "not" /\ ast.p.op = "var" -> {Literal(ast.p.id, "Negative")}
      [] ast.op = "or" ->
            generate_clause_from_subtree(ast.l) \cup generate_clause_from_subtree(ast.r)
      [] OTHER -> {}

\* The conjuncts in the order the stack of generate_clauses_from_tree pops
\* them: p2 is pushed last and popped first.
RECURSIVE conjuncts(_)
conjuncts(ast) ==
    IF ast.op = "and" THEN conjuncts(ast.r) \o conjuncts(ast.l) ELSE <<ast>>

tree_unreachable(ast) ==
    \E i \in DOMAIN conjuncts(ast) : clause_unreachable(conjuncts(ast)[i])

generate_clauses_from_tree(ast) ==
    [i \in DOMAIN conjuncts(ast) |-> generate_clause_from_subtree(conjuncts(ast)[i])]

----------------------------------------------------------------------------
(* sat.rs: DPLLSolver *)

Literals(clauses) == UNION {clauses[i] : i \in DOMAIN clauses}

\* Vec::retain
Retain(clauses, Keep(_)) == SelectSeq(clauses, Keep)

UnitIndexes(clauses) == {i \in DOMAIN clauses : is_unit_clause(clauses[i])}

\* Some(the literal of the first unit clause) as a set of one, None as {}.
get_unit_clause(clauses) ==
    IF UnitIndexes(clauses) = {} THEN {}
    ELSE LET first == CHOOSE i \in UnitIndexes(clauses) :
                         \A j \in UnitIndexes(clauses) : i <= j
         IN  clauses[first]

unit_propagate(clauses, unit) ==
    LET Unsatisfied(clause) == unit \notin clause
        kept == Retain(clauses, Unsatisfied)
    IN  [i \in DOMAIN kept |-> kept[i] \ {literal_not(unit)}]

\* unit_propagation: the while loop run to its end.
RECURSIVE unit_propagation(_)
unit_propagation(clauses) ==
    IF get_unit_clause(clauses) = {} THEN clauses
    ELSE unit_propagation(
             unit_propagate(clauses, CHOOSE l \in get_unit_clause(clauses) : TRUE))

\* The table is keyed by the whole literal (identifier and polarity), so an
\* entry only ever meets occurrences of its own polarity.
purity_table(clauses) ==
    [key \in Literals(clauses) |->
        \A literal \in Literals(clauses) :
            literal = key => key.polarity = literal.polarity]

\* The literals whose negation occurs in no clause.
purity_by_identifier(clauses) ==
    [key \in Literals(clauses) |-> literal_not(key) \notin Literals(clauses)]

\* Every clause that holds no pure literal, the pure literals taken to be
\* those whose negation occurs nowhere.
eliminate_pure_literals(clauses) ==
    LET table == purity_by_identifier(clauses)
        NoPure(clause) == \A literal \in DOMAIN table :
                              table[literal] => literal \notin clause
    IN  Retain(clauses, NoPure)

pure_literal_elimination(clauses) ==
    LET table == purity_table(clauses)
        pure == {literal \in DOMAIN table : table[literal]}
        HoldsAll(clause) == \A literal \in pure : literal \in clause
    IN  Retain(clauses, HoldsAll)

with_unit_clause(clauses, unit) == Append(clauses, {unit})

\* clauses[0].literals.iter().next(): any literal of the first clause, the
\* iteration order of a HashSet being unspecified.
choose_literal(clauses) == clauses[1]

Frame(clauses, at, lit) == [clauses |-> clauses, at |-> at, lit |-> lit]

----------------------------------------------------------------------------
(* The calls.                                                              *)
(*   formula    the AST the operation is called on                         *)
(*   operation  "cnf", "dnf" or "sat"                                      *)
(*   pc         "hull": in the loop of rewrite_recursive_hull;             *)
(*              "extract": cnf() has returned to DPLLSolver::from;         *)
(*              "dpll": in DPLLSolver::dpll; "done": returned;             *)
(*              "panic": unreachable!() was reached                        *)
(*   target     the local `target` of rewrite_recursive_hull               *)
(*   returned   the values cnf / dnf has returned so far                   *)
(*   stack      the activations of dpll, the innermost last; a frame is    *)
(*              "up" while in unit_propagation and "first" / "second"      *)
(*              while its first / second recursive call is running         *)
(*   ret        the value a dpll activation has just returned, or "none"   *)
(*   result     what sat() returned: "true", "false", or "none" before     *)

VARIABLES formula, operation, pc, target, returned, stack, ret, result

vars == <<formula, operation, pc, target, returned, stack, ret, result>>

Top == stack[Len(stack)]

Pop == SubSeq(stack, 1, Len(stack) - 1)

\* The formula is one the macro writes with at most MaxSize nodes, or the
\* formula of main.
InputFormula ==
    \/ formula = MainFormula
    \/ \E n \in 1..MaxSize : \E k \in 1..Len(Written[n][0]) :
          formula = Written[n][0][k][1]

Init ==
    /\ InputFormula
    /\ operation \in {"cnf", "dnf", "sat"}
    /\ pc = "hull"
    /\ target = formula
    /\ returned = <<>>
    /\ stack = <<>>
    /\ ret = "none"
    /\ result = "none"

\* One iteration of the loop of rewrite_recursive_hull.  When it returns,
\* sat() goes on to extract the clauses, and a first cnf() / dnf() is
\* followed by a second one on the value returned.
HullIteration ==
    /\ pc = "hull"
    /\ \E it \in {hull_iteration(Rules(operation), target)} :
           /\ target' = it.value
           /\ IF it.return
              THEN /\ returned' = Append(returned, it.value)
                   /\ pc' = IF operation = "sat" THEN "extract"
                            ELSE IF returned = <<>> THEN "hull" ELSE "done"
              ELSE UNCHANGED <<returned, pc>>
    /\ UNCHANGED <<formula, operation, stack, ret, result>>

\* DPLLSolver::from: generate_clauses_from_tree(value.cnf()).
Extract ==
    /\ pc = "extract"
    /\ IF tree_unreachable(target)
       THEN /\ pc' = "panic"
            /\ stack' = stack
       ELSE /\ pc' = "dpll"
            /\ stack' = <<Frame(generate_clauses_from_tree(target), "up", <<>>)>>
    /\ UNCHANGED <<formula, operation, target, returned, ret, result>>

\* unit_propagation: one iteration of its while loop.
UnitPropagate ==
    /\ pc = "dpll" /\ ret = "none"
    /\ Top.at = "up"
    /\ get_unit_clause(Top.clauses) # {}
    /\ LET unit == CHOOSE l \in get_unit_clause(Top.clauses) : TRUE
       IN  stack' = [stack EXCEPT ![Len(stack)].clauses = unit_propagate(@, unit)]
    /\ UNCHANGED <<formula, operation, pc, target, returned, ret, result>>

\* dpll once unit_propagation has returned: pure_literal_elimination, the
\* two checks, and the first recursive call on a literal of the first clause.
DpllBody ==
    /\ pc = "dpll" /\ ret = "none"
    /\ Top.at = "up"
    /\ get_unit_clause(Top.clauses) = {}
    /\ \E clauses \in {pure_literal_elimination(Top.clauses)} :
           IF clauses = <<>>
           THEN /\ ret' = "true"
                /\ stack' = Pop
           ELSE IF \E i \in DOMAIN clauses : is_empty(clauses[i])
           THEN /\ ret' = "false"
                /\ stack' = Pop
           ELSE /\ ret' = "none"
                /\ \E unit \in choose_literal(clauses) :
                      stack' = Pop \o
                         << Frame(clauses, "first", <<unit>>),
                            Frame(with_unit_clause(clauses, literal_not(unit)),
                                  "up", <<>>) >>
    /\ UNCHANGED <<formula, operation, pc, target, returned, result>>

\* A dpll activation has returned ret: to sat(), or to the activation that
\* called it, which evaluates `first || second` left to right.
DpllReturn ==
    /\ pc = "dpll" /\ ret # "none"
    /\ IF stack = <<>>
       THEN /\ pc' = "done"
            /\ result' = ret
            /\ ret' = "none"
            /\ stack' = stack
       ELSE IF Top.at = "first" /\ ret = "false"
       THEN /\ stack' = Pop \o
                   << Frame(Top.clauses, "second", Top.lit),
                      Frame(with_unit_clause(Top.clauses, Top.lit[1]), "up", <<>>) >>
            /\ ret' = "none"
            /\ UNCHANGED <<pc, result>>
       ELSE /\ stack' = Pop
            /\ UNCHANGED <<pc, result, ret>>
    /\ UNCHANGED <<formula, operation, target, returned>>

Next ==
    \/ HullIteration
    \/ Extract
    \/ UnitPropagate
    \/ DpllBody
    \/ DpllReturn

Spec == Init /\ [][Next]_vars

\* The program runs on until it returns or panics.
FairSpec == Spec /\ WF_vars(Next)

----------------------------------------------------------------------------
(* Meaning and shape of formulas *)

RECURSIVE Variables(_)
Variables(ast) ==
    CASE ast.op = "var" -> {ast.id}
      [] ast.op = "not" -> Variables(ast.p)
      [] OTHER -> Variables(ast.l) \cup Variables(ast.r)

RECURSIVE Size(_)
Size(ast) ==
    CASE ast.op = "var" -> 1
      [] ast.op = "not" -> 1 + Size(ast.p)
      [] OTHER -> 1 + Size(ast.l) + Size(ast.r)

RECURSIVE Eval(_, _)
Eval(ast, v) ==
    CASE ast.op = "var" -> v[ast.id]
      [] ast.op = "not" -> ~Eval(ast.p, v)
      [] ast.op = "and" -> Eval(ast.l, v) /\ Eval(ast.r, v)
      [] OTHER -> Eval(ast.l, v) \/ Eval(ast.r, v)

Assignments == [Variables(formula) -> BOOLEAN]

Satisfiable == \E v \in Assignments : Eval(formula, v)

SameMeaning(ast) ==
    /\ Variables(ast) \subseteq Variables(formula)
    /\ \A v \in Assignments : Eval(ast, v) = Eval(formula, v)

IsLiteral(ast) == ast.op = "var" \/ (ast.op = "not" /\ ast.p.op = "var")

RECURSIVE OnlyOrOverLiterals(_)
OnlyOrOverLiterals(ast) ==
    \/ IsLiteral(ast)
    \/ ast.op = "or" /\ OnlyOrOverLiterals(ast.l) /\ OnlyOrOverLiterals(ast.r)

RECURSIVE OnlyAndOverLiterals(_)
OnlyAndOverLiterals(ast) ==
    \/ IsLiteral(ast)
    \/ ast.op = "and" /\ OnlyAndOverLiterals(ast.l) /\ OnlyAndOverLiterals(ast.r)

\* A conjunction of disjunctions of literals.
RECURSIVE IsCnf(_)
IsCnf(ast) ==
    \/ OnlyOrOverLiterals(ast)
    \/ ast.op = "and" /\ IsCnf(ast.l) /\ IsCnf(ast.r)

\* A disjunction of conjunctions of literals.
RECURSIVE IsDnf(_)
IsDnf(ast) ==
    \/ OnlyAndOverLiterals(ast)
    \/ ast.op = "or" /\ IsDnf(ast.l) /\ IsDnf(ast.r)

----------------------------------------------------------------------------
(* Claims *)

SatReturned == operation = "sat" /\ pc = "done"

\* The top activation of dpll has left unit_propagation and is about to run
\* pure_literal_elimination.
PropagationDone ==
    /\ pc = "dpll" /\ ret = "none"
    /\ Top.at = "up"
    /\ get_unit_clause(Top.clauses) = {}

HasEmptyClause(clauses) == \E i \in DOMAIN clauses : is_empty(clauses[i])

\* The clauses of the outermost call of dpll when its unit_propagation has
\* returned.
PropagatedClauses == unit_propagation(generate_clauses_from_tree(returned[1]))

\* C1: whenever sat() returns, it returns true exactly when some assignment
\* of the formula's variables makes the formula true, and false exactly when
\* none does.  (That sat() always returns fails as well: see C3 for the
\* formulas on which clause extraction panics.)
C1_DpllDecidesSatisfiability ==
    SatReturned => result = IF Satisfiable THEN "true" ELSE "false"

\* C2: the target of the fixpoint loop, every value cnf / dnf returns, and
\* the result of applying any single rule of the ruleset to the target all
\* evaluate like the input formula under every assignment.
C2_SemanticPreservation ==
    pc \in {"hull", "extract", "done"} =>
    /\ SameMeaning(target)
    /\ \A i \in DOMAIN returned : SameMeaning(returned[i])
    /\ \A i \in DOMAIN Rules(operation) :
           SameMeaning(rule_rewrite(Rules(operation)[i], target))

C2_Witness ==
    /\ operation \in {"cnf", "dnf"} /\ pc = "done"
    /\ returned[1] # formula
    /\ Cardinality(Variables(formula)) >= 2

\* C3: what cnf returns is a conjunction of disjunctions of literals, and
\* clause extraction never reaches unreachable!().
C3_CnfShape ==
    /\ (operation \in {"cnf", "sat"} /\ returned # <<>>) => IsCnf(returned[1])
    /\ pc # "panic"

\* C4: what dnf returns is a disjunction of conjunctions of literals.
C4_DnfShape ==
    (operation = "dnf" /\ returned # <<>>) => IsDnf(returned[1])

\* C5: every call of cnf and dnf returns: the loop of
\* rewrite_recursive_hull is left after finitely many passes.
C5_ConversionTerminates == <>(pc # "hull")

C5_Witness ==
    /\ operation \in {"cnf", "dnf"} /\ pc = "done"
    /\ Size(returned[1]) > Size(formula)

\* C6: cnf and dnf applied to their own result return it unchanged.
C6_Idempotence ==
    Len(returned) = 2 => returned[2] = returned[1]

C6_Witness ==
    /\ Len(returned) = 2
    /\ returned[1] # formula
    /\ Size(returned[1]) < Size(formula)

MainAllFalse == [i \in Variables(MainFormula) |-> FALSE]

MainSatReturned == SatReturned /\ formula = MainFormula

\* C7 as stated: the all-false assignment satisfies the formula of main and
\* sat() returns true on it.
C7_MainFormulaSatisfiable ==
    MainSatReturned => (Eval(formula, MainAllFalse) /\ result = "true")

\* C7 amended: the all-false assignment does not satisfy the formula of main,
\* no assignment does, and sat() returns false on it.
C7_MainFormulaUnsatisfiable ==
    MainSatReturned =>
        (~Eval(formula, MainAllFalse) /\ ~Satisfiable /\ result = "false")

C7_Witness == MainSatReturned /\ result # "none"

\* C8: when the clauses of the outermost call of dpll hold an empty clause
\* once unit propagation has reached its fixed point, that call, and so
\* sat(), returns false.
C8_EmptyClauseReturnsFalse ==
    (SatReturned /\ HasEmptyClause(PropagatedClauses)) => result = "false"

\* C9: pure_literal_elimination takes a literal to be pure exactly when its
\* negation occurs in no clause, removes the clauses that hold a pure
\* literal and keeps the others as they are.
C9_PureLiteralElimination ==
    PropagationDone =>
        /\ purity_table(Top.clauses) = purity_by_identifier(Top.clauses)
        /\ pure_literal_elimination(Top.clauses) = eliminate_pure_literals(Top.clauses)

\* The answer as a function of the formula alone: false exactly when the
\* first unit propagation leaves clauses, all of them empty.
DeterminedAnswer ==
    IF /\ PropagatedClauses # <<>>
       /\ \A i \in DOMAIN PropagatedClauses : is_empty(PropagatedClauses[i])
    THEN "false" ELSE "true"

\* C10: whatever literals choose_literal picks, sat() returns the same
\* answer for a formula: the answer is the one the formula alone determines,
\* and so is every value returned to an activation that had a choice.
C10_ChoiceIndependent ==
    /\ SatReturned => result = DeterminedAnswer
    /\ (pc = "dpll" /\ ret # "none") => ret = DeterminedAnswer

C10_Witness ==
    /\ pc = "dpll" /\ ret # "none"
    /\ stack # <<>>
    /\ Top.at = "first"
    /\ Cardinality(choose_literal(Top.clauses)) >= 2
    /\ Len(Top.clauses) >= 2

=============================================================================
